---- MODULE Spec2Model ----
(***************************************************************************)
(* Model of sentry-core/src/error.rs: turning a std::error::Error and its  *)
(* chain of sources into a sentry Event (event_from_error,                 *)
(* exception_from_error, parse_type_from_debug) and handing it to the hub  *)
(* (Hub::capture_error, capture_error).                                    *)
(*                                                                         *)
(* Texts that the code inspects character by character (the Debug output)  *)
(* are sequences of Unicode code points.  Texts that the code only copies  *)
(* (the Display output) are opaque strings.                                *)
(***************************************************************************)
EXTENDS Integers, Sequences, FiniteSets, TLC

\* ------------------------------------------------------------------ bounds

\* Longest debug text enumerated exhaustively over Alphabet.
MaxLen == 3
\* Number of error objects on the heap (so chains have depth up to NumErrs).
NumErrs == 3
\* Number of threads that call into the same hub.
NumThreads == 2

\* ------------------------------------------------------------- characters

\* Mutant: the newline was left out of the pattern.
DelimsNoNewline == {32, 40, 123, 13}

\* The pattern of the split at error.rs:104: ' ', '(', '{', '\r', '\n'.
Delims == {32, 40, 123, 13, 10}

\* char::is_whitespace, as used by str::trim (error.rs:107), on the code
\* points below 128: tab, LF, VT, FF, CR, space.
IsWhitespace(c) == c \in {9, 10, 11, 12, 13, 32}

\* Code points the exhaustive enumeration draws from:
\* 'M', 'x', ' ', '(', '{', CR, LF, TAB.
Alphabet == {77, 120, 32, 40, 123, 13, 10, 9}

\* --------------------------------------------------- parse_type_from_debug

RECURSIVE SplitFrom(_, _, _, _)
\* str::split(pattern): scan s from index i, cur is the token being
\* collected, acc the tokens already yielded.  A text always yields at
\* least one token (the empty text yields one empty token).
SplitFrom(s, i, cur, acc) ==
    IF i > Len(s) THEN Append(acc, cur)
    ELSE IF s[i] \in Delims THEN SplitFrom(s, i + 1, <<>>, Append(acc, cur))
    ELSE SplitFrom(s, i + 1, Append(cur, s[i]), acc)

Split(s) == SplitFrom(s, 1, <<>>, <<>>)

RECURSIVE TrimStart(_)
TrimStart(s) ==
    IF s # <<>> /\ IsWhitespace(Head(s)) THEN TrimStart(Tail(s)) ELSE s

RECURSIVE TrimEnd(_)
TrimEnd(s) ==
    IF s # <<>> /\ IsWhitespace(s[Len(s)])
    THEN TrimEnd(SubSeq(s, 1, Len(s) - 1))
    ELSE s

\* str::trim
Trim(s) == TrimEnd(TrimStart(s))

\* Mutant: the whole input is trimmed before it is split.
parse_trim_first(d) == Head(Split(Trim(d)))

\* error.rs:103-108: d.split(..).next().unwrap().trim()
parse_type_from_debug(d) == Trim(Head(Split(d)))

\* ------------------------------------------------------------------- values

\* Option: None and Some(x).
None == <<>>
Some(x) == <<x>>

\* source() returned None (error.rs:70-71).
NoErr == 0
\* top.client is None (error.rs:14).
NoClient == 0
\* Uuid::nil() (error.rs:18).
Nil == 0

ErrIds == 1..NumErrs
Threads == 1..NumThreads
\* Identifiers the hub's capture entry point may hand back; it may hand
\* back the nil identifier too (an event the client dropped).
Uuids == {Nil, 1}
\* Clients that can be bound to the top of the hub's stack.
Clients == {1, 2}

\* The exceptions vector of a walk over a cyclic chain grows without bound;
\* the model stops extending it at this length.
MaxExc == NumErrs + 1

\* "MyStruct", "InnerError", "OuterError(InnerError)", "Ctx"
MyStruct == <<77, 121, 83, 116, 114, 117, 99, 116>>
InnerError == <<73, 110, 110, 101, 114, 69, 114, 114, 111, 114>>
OuterError == <<79, 117, 116, 101, 114, 69, 114, 114, 111, 114>>
Ctx == <<67, 116, 120>>

\* What an error shows of itself: its Debug text and its Display text.
\* The first two are the errors of the doc example of event_from_error
\* (error.rs:51-57); the third has an empty Debug and Display text; the
\* fourth has a pretty-printed Debug text that starts on a new line.
Kinds ==
    << [dbg |-> OuterError \o <<40>> \o InnerError \o <<41>>, msg |-> "outer"],
       [dbg |-> InnerError, msg |-> "inner"],
       [dbg |-> <<>>, msg |-> ""],
       [dbg |-> <<10>> \o Ctx \o <<32, 123>>, msg |-> "ctx"] >>

RECURSIVE At(_, _, _)
\* The error k sources after e under the source map s (NoErr past the end).
At(s, e, k) ==
    IF k = 0 THEN e
    ELSE IF At(s, e, k - 1) = NoErr THEN NoErr
    ELSE s[At(s, e, k - 1)]

\* The errors that a walk from error 1 meets under the source map s.
Reached(s) == { At(s, 1, k) : k \in 0..(NumErrs - 1) } \ {NoErr}

\* Source maps: an error has none, a further error or an error met before
\* (itself included) as its source.  Errors are numbered in the order in
\* which a walk from error 1 meets them; errors that it never meets are
\* left without a source.
SourceMaps ==
    { s \in [ErrIds -> ErrIds \cup {NoErr}] :
        \A i \in ErrIds :
            IF i \in Reached(s) THEN s[i] <= i + 1 ELSE s[i] = NoErr }

\* The kinds of the errors of a source map (those never met are of kind 1).
KindMaps(s) ==
    { k \in [ErrIds -> 1..Len(Kinds)] : \A i \in ErrIds \ Reached(s) : k[i] = 1 }

HeapOf(s, k) ==
    [i \in ErrIds |->
        [dbg |-> Kinds[k[i]].dbg, msg |-> Kinds[k[i]].msg, src |-> s[i]]]

\* One heap for the runs of the hub: the chain 1 -> 2 -> ... -> NumErrs.
ChainHeap ==
    [i \in ErrIds |->
        [dbg |-> Kinds[((i - 1) % Len(Kinds)) + 1].dbg,
         msg |-> Kinds[((i - 1) % Len(Kinds)) + 1].msg,
         src |-> IF i < NumErrs THEN i + 1 ELSE NoErr]]

\* The errors of ChainHeap that threads capture: the head of the chain
\* (depth NumErrs) and its last error (depth 1).
Captured == {1, NumErrs}

\* Debug texts given to parse_type_from_debug: every text over Alphabet up
\* to MaxLen, and the texts of the examples.
BoundedTexts == UNION { [1..n -> Alphabet] : n \in 0..MaxLen }

ExampleTexts ==
    { MyStruct,
      MyStruct \o <<40, 53, 41>>,
      MyStruct \o <<32, 123, 32, 102, 105, 101, 108, 100, 58, 32, 49, 32, 125>>,
      <<10>> \o MyStruct \o <<40, 53, 41>>,
      <<9>> \o MyStruct \o <<40, 53, 41>> }

ParseInputs == BoundedTexts \cup ExampleTexts

\* -------------------------------------------------------------------- state

VARIABLES
    dbgText,     \* the argument of a call of parse_type_from_debug
    tyName,      \* what that call returned
    parsed,      \* whether it has returned
    heap,        \* the error objects: Debug text, Display text, source
    pc,          \* where each thread is
    err,         \* the error each thread was given
    exceptions,  \* event_from_error's vector
    source,      \* event_from_error's loop variable
    walked,      \* history: the errors exception_from_error was called on
    event,       \* what event_from_error returned (None before it returns)
    ret,         \* what capture_error returned
    seen,        \* top.client as read at error.rs:14
    client,      \* the client at the top of the hub's stack
    readers,     \* the threads inside self.inner.with
    log          \* the calls of Hub::capture_event, in order

vars == <<dbgText, tyName, parsed, heap, pc, err, exceptions, source, walked,
          event, ret, seen, client, readers, log>>

parseVars == <<dbgText, tyName, parsed>>
hubVars == <<client, readers, log>>
walkVars == <<exceptions, source, walked, event>>

ThreadsIdle ==
    /\ pc = [t \in Threads |-> "idle"]
    /\ err = [t \in Threads |-> NoErr]
    /\ exceptions = [t \in Threads |-> <<>>]
    /\ source = [t \in Threads |-> NoErr]
    /\ walked = [t \in Threads |-> <<>>]
    /\ event = [t \in Threads |-> None]
    /\ ret = [t \in Threads |-> Nil]
    /\ seen = [t \in Threads |-> NoClient]

NoParse ==
    /\ dbgText = <<>>
    /\ tyName = <<>>
    /\ parsed = FALSE

\* ---------------------------------------------------------- event building

\* The fields of Exception and Event that the code leaves to
\* Default::default() (error.rs:89, error.rs:80).
ExceptionRest == [module |-> None, stacktrace |-> None, mechanism |-> None]
EventRest == [message |-> None, transaction |-> None, fingerprint |-> None]

RECURSIVE Reverse(_)
\* Vec::reverse
Reverse(s) == IF s = <<>> THEN <<>> ELSE Append(Reverse(Tail(s)), Head(s))

\* Mutant: the value is left out when the message is empty.
exception_skip_empty_value(e) ==
    [ty |-> parse_type_from_debug(heap[e].dbg),
     value |-> IF heap[e].msg = "" THEN None ELSE Some(heap[e].msg)]
    @@ ExceptionRest

\* Mutant: the type is the whole Debug text.
exception_whole_debug(e) ==
    [ty |-> heap[e].dbg, value |-> Some(heap[e].msg)] @@ ExceptionRest

\* error.rs:84-91
exception_from_error(e) ==
    [ty |-> parse_type_from_debug(heap[e].dbg), value |-> Some(heap[e].msg)]
    @@ ExceptionRest

\* Mutant: the vector is not reversed.
EventNotReversed(excs) == [exception |-> excs, level |-> "Error"] @@ EventRest

\* Mutant: the event takes the message of the captured error.
EventWithMessage(excs) ==
    [exception |-> Reverse(excs), level |-> "Error",
     message |-> excs[1].value, transaction |-> None, fingerprint |-> None]

\* error.rs:76-81: reverse, then Event { exception, level, ..default }
EventOf(excs) == [exception |-> Reverse(excs), level |-> "Error"] @@ EventRest

\* error.rs:68-70: the vector starts with the captured error.
EventFromErrorStart(t) ==
    /\ pc[t] = "build"
    /\ exceptions' = [exceptions EXCEPT ![t] = <<exception_from_error(err[t])>>]
    /\ walked' = [walked EXCEPT ![t] = <<err[t]>>]
    /\ source' = [source EXCEPT ![t] = heap[err[t]].src]
    /\ pc' = [pc EXCEPT ![t] = "walk"]
    /\ UNCHANGED <<parseVars, hubVars, heap, err, event, ret, seen>>

\* Mutant: the loop stops after one source.
WalkStepOnce(t) ==
    /\ pc[t] = "walk"
    /\ source[t] # NoErr
    /\ Len(exceptions[t]) < MaxExc
    /\ exceptions' = [exceptions EXCEPT
                        ![t] = Append(@, exception_from_error(source[t]))]
    /\ walked' = [walked EXCEPT ![t] = Append(@, source[t])]
    /\ source' = [source EXCEPT ![t] = NoErr]
    /\ UNCHANGED <<parseVars, hubVars, heap, pc, err, event, ret, seen>>

\* error.rs:71-74: one turn of the loop.
WalkStep(t) ==
    /\ pc[t] = "walk"
    /\ source[t] # NoErr
    /\ Len(exceptions[t]) < MaxExc
    /\ exceptions' = [exceptions EXCEPT
                        ![t] = Append(@, exception_from_error(source[t]))]
    /\ walked' = [walked EXCEPT ![t] = Append(@, source[t])]
    /\ source' = [source EXCEPT ![t] = heap[source[t]].src]
    /\ UNCHANGED <<parseVars, hubVars, heap, pc, err, event, ret, seen>>

\* error.rs:71, 76-81: the loop ends, the event is built and returned.
WalkEnd(t) ==
    /\ pc[t] = "walk"
    /\ source[t] = NoErr
    /\ event' = [event EXCEPT ![t] = Some(EventOf(exceptions[t]))]
    /\ pc' = [pc EXCEPT ![t] = "built"]
    /\ UNCHANGED <<parseVars, hubVars, heap, err, exceptions, source, walked,
                   ret, seen>>

\* error.rs:67: a call of the public event_from_error.
event_from_error(t, e) ==
    /\ pc[t] = "idle"
    /\ err' = [err EXCEPT ![t] = e]
    /\ pc' = [pc EXCEPT ![t] = "build"]
    /\ UNCHANGED <<parseVars, hubVars, walkVars, heap, ret, seen>>

\* ---------------------------------------------------------------- the hub

\* error.rs:10-12: self.inner.with gives the closure scoped read access to
\* the stack.  (with_client_impl! keeps this body when the crate is built
\* with its client; that build is the one modelled.)
Hub_capture_error(t, e) ==
    /\ pc[t] = "idle"
    /\ err' = [err EXCEPT ![t] = e]
    /\ readers' = readers \cup {t}
    /\ pc' = [pc EXCEPT ![t] = "check"]
    /\ UNCHANGED <<parseVars, walkVars, heap, ret, seen, client, log>>

\* error.rs:37-39: the free function calls capture_error of the active hub.
capture_error(t, e) == Hub_capture_error(t, e)

\* Mutant: the test of the client is inverted.
CheckClientInverted(t) ==
    /\ pc[t] = "check"
    /\ seen' = [seen EXCEPT ![t] = client]
    /\ IF client = NoClient
       THEN /\ pc' = [pc EXCEPT ![t] = "build"]
            /\ ret' = ret
       ELSE /\ pc' = [pc EXCEPT ![t] = "release"]
            /\ ret' = [ret EXCEPT ![t] = Nil]
    /\ UNCHANGED <<parseVars, hubVars, walkVars, heap, err>>

\* Mutant: the event is built and sent whether or not there is a client.
CheckClientAlways(t) ==
    /\ pc[t] = "check"
    /\ seen' = [seen EXCEPT ![t] = client]
    /\ pc' = [pc EXCEPT ![t] = "build"]
    /\ UNCHANGED <<parseVars, hubVars, walkVars, heap, err, ret>>

\* error.rs:13-14, 17-19: read the top of the stack and test its client.
CheckClient(t) ==
    /\ pc[t] = "check"
    /\ seen' = [seen EXCEPT ![t] = client]
    /\ IF client # NoClient
       THEN /\ pc' = [pc EXCEPT ![t] = "build"]
            /\ ret' = ret
       ELSE /\ pc' = [pc EXCEPT ![t] = "release"]
            /\ ret' = [ret EXCEPT ![t] = Nil]
    /\ UNCHANGED <<parseVars, hubVars, walkVars, heap, err>>

\* Hub::capture_event: the hub's capture entry point takes the event and
\* hands back an identifier.
capture_event(t, ev, id) ==
    Append(log, [thread |-> t, event |-> ev, id |-> id, client |-> client])

\* Mutant: the identifier of the entry point is dropped.
DispatchDropsId(t) ==
    /\ pc[t] = "built"
    /\ t \in readers
    /\ \E id \in Uuids :
        /\ log' = capture_event(t, event[t][1], id)
        /\ ret' = [ret EXCEPT ![t] = Nil]
    /\ pc' = [pc EXCEPT ![t] = "release"]
    /\ UNCHANGED <<parseVars, walkVars, heap, err, seen, client, readers>>

\* error.rs:15-16: the event goes to self.capture_event, whose result is
\* the result of the closure.
Dispatch(t) ==
    /\ pc[t] = "built"
    /\ t \in readers
    /\ \E id \in Uuids :
        /\ log' = capture_event(t, event[t][1], id)
        /\ ret' = [ret EXCEPT ![t] = id]
    /\ pc' = [pc EXCEPT ![t] = "release"]
    /\ UNCHANGED <<parseVars, walkVars, heap, err, seen, client, readers>>

\* error.rs:20-22: the closure returns, the access to the stack ends and
\* capture_error returns the closure's result.
Return(t) ==
    /\ pc[t] = "release"
    /\ readers' = readers \ {t}
    /\ pc' = [pc EXCEPT ![t] = "done"]
    /\ UNCHANGED <<parseVars, walkVars, heap, err, ret, seen, client, log>>

\* Hub::bind_client: another caller installs (c a client) or removes
\* (c = NoClient) the client of the top of the stack; it needs the stack
\* for itself.
BindClient(c) ==
    /\ readers = {}
    /\ client # c
    /\ client' = c
    /\ UNCHANGED <<parseVars, walkVars, heap, pc, err, ret, seen, readers, log>>

\* ------------------------------------------------------------ the parser

\* A call of the public parse_type_from_debug (error.rs:103).
ParseTypeFromDebug ==
    /\ ~parsed
    /\ tyName' = parse_type_from_debug(dbgText)
    /\ parsed' = TRUE
    /\ UNCHANGED <<dbgText, heap, pc, err, walkVars, ret, seen, hubVars>>

\* ------------------------------------------------------- specifications

HubIdle ==
    /\ readers = {}
    /\ log = <<>>

\* Threads capture errors of one chain through one hub while the client of
\* the hub is installed and removed.
Init ==
    /\ NoParse
    /\ heap = ChainHeap
    /\ ThreadsIdle
    /\ client \in Clients \cup {NoClient}
    /\ HubIdle

Next ==
    \/ \E t \in Threads, e \in Captured : capture_error(t, e)
    \/ \E t \in Threads : CheckClient(t)
    \/ \E t \in Threads : EventFromErrorStart(t)
    \/ \E t \in Threads : WalkStep(t)
    \/ \E t \in Threads : WalkEnd(t)
    \/ \E t \in Threads : Dispatch(t)
    \/ \E t \in Threads : Return(t)
    \/ \E c \in Clients \cup {NoClient} : BindClient(c)

Spec == Init /\ [][Next]_vars

\* One call of event_from_error, by thread 1 on error 1 of any heap (the
\* heaps give error 1 every chain of up to NumErrs errors, ending or not).
InitEvent ==
    /\ NoParse
    /\ \E s \in SourceMaps : \E k \in KindMaps(s) : heap = HeapOf(s, k)
    /\ ThreadsIdle
    /\ client = NoClient
    /\ HubIdle

NextEvent ==
    \/ event_from_error(1, 1)
    \/ EventFromErrorStart(1)
    \/ WalkStep(1)
    \/ WalkEnd(1)

SpecEvent == InitEvent /\ [][NextEvent]_vars

\* A call that has started keeps running.
FairSpecEvent == SpecEvent /\ WF_vars(NextEvent)

\* One call of parse_type_from_debug on any text.
InitParse ==
    /\ dbgText \in ParseInputs
    /\ tyName = <<>>
    /\ parsed = FALSE
    /\ heap = ChainHeap
    /\ ThreadsIdle
    /\ client = NoClient
    /\ HubIdle

NextParse == ParseTypeFromDebug

SpecParse == InitParse /\ [][NextParse]_vars

\* ----------------------------------------------------- the chain of causes

\* The source map of the heap.
SrcOf == [i \in ErrIds |-> heap[i].src]

\* The error at walk position k (0 is the captured error e).
Pos(e, k) == At(SrcOf, e, k)

\* The chain of e ends: some source is absent.
Acyclic(e) == \E n \in 1..NumErrs : Pos(e, n) = NoErr

\* The number of errors of an ending chain.
Depth(e) == CHOOSE n \in 1..NumErrs : Pos(e, n) = NoErr /\ Pos(e, n - 1) # NoErr

\* The chain of e in walk order.
ChainOf(e) == [k \in 1..Depth(e) |-> Pos(e, k - 1)]

Built(t) == pc[t] = "built" /\ event[t] # None

\* ------------------------------------------------------------------ claims

\* C1: for a chain of depth N, event_from_error returns an event with
\* exactly N exceptions in root-cause-first order: entry i (from 0) is built
\* from the chain element at walk position N-1-i, so entry 0 is the
\* innermost cause and entry N-1 the captured error.
C1_RootCauseFirst ==
    \A t \in Threads :
        Built(t) =>
            /\ Acyclic(err[t])
            /\ LET N == Depth(err[t])
                   excs == event[t][1].exception
               IN /\ Len(excs) = N
                  /\ \A i \in 0..(N - 1) :
                        LET e == Pos(err[t], N - 1 - i)
                        IN /\ walked[t][N - i] = e
                           /\ excs[i + 1].ty = parse_type_from_debug(heap[e].dbg)
                           /\ excs[i + 1].value = Some(heap[e].msg)
                  /\ excs[N].value = Some(heap[err[t]].msg)

C1_Witness ==
    /\ Built(1)
    /\ Acyclic(err[1])
    /\ Depth(err[1]) = 3
    /\ event[1][1].exception[1].value = Some("inner")
    /\ event[1][1].exception[3].value = Some("outer")

\* C2: every exception of the event comes from one chain element, its
\* value is present (also for an empty message) and is the Display text of
\* that element, its type is parse_type_from_debug of the element's Debug
\* text; an error without a source yields exactly one exception whose value
\* is the error's Display text.
C2_ExceptionFields ==
    \A t \in Threads :
        Built(t) =>
            LET excs == event[t][1].exception
            IN /\ Len(excs) = Len(walked[t])
               /\ \A i \in 1..Len(excs) :
                    LET e == walked[t][Len(excs) + 1 - i]
                    IN /\ excs[i].value # None
                       /\ Len(excs[i].value) = 1
                       /\ excs[i].value[1] = heap[e].msg
                       /\ excs[i].ty = parse_type_from_debug(heap[e].dbg)
               /\ (heap[err[t]].src = NoErr =>
                     /\ Len(excs) = 1
                     /\ excs[1].value = Some(heap[err[t]].msg))

C2_Witness ==
    /\ Built(1)
    /\ heap[err[1]].src = NoErr
    /\ heap[err[1]].msg = ""
    /\ Len(event[1][1].exception) = 1
    /\ event[1][1].exception[1].value = Some("")

\* C3: every event that event_from_error returns has level Error, and its
\* fields other than exception and level hold their default values.
C3_LevelAndDefaults ==
    \A t \in Threads :
        event[t] # None =>
            /\ event[t][1].level = "Error"
            /\ DOMAIN event[t][1] = {"exception", "level"} \cup DOMAIN EventRest
            /\ \A f \in DOMAIN EventRest : event[t][1][f] = EventRest[f]

C3_Witness ==
    /\ Built(1)
    /\ Len(event[1][1].exception) = 2
    /\ event[1][1].level = "Error"

\* The entries of the log that thread t made.
EntriesOf(t) == { i \in DOMAIN log : log[i].thread = t }

\* The thread has tested the client and has not yet left capture_error.
Checked(t) == pc[t] \in {"build", "walk", "built", "release"}

\* C4: when the top of the stack holds no client, Hub::capture_error
\* returns the nil identifier, never calls capture_event, builds no event
\* and leaves the stack's client as it was.
C4_NoClientNoOp ==
    \A t \in Threads :
        (pc[t] \in {"release", "done"} /\ seen[t] = NoClient) =>
            /\ ret[t] = Nil
            /\ EntriesOf(t) = {}
            /\ event[t] = None
            /\ exceptions[t] = <<>>
            /\ (pc[t] = "release" => client = NoClient)

C4_Witness ==
    \E t \in Threads :
        /\ pc[t] = "done"
        /\ seen[t] = NoClient
        /\ ret[t] = Nil
        /\ log # <<>>

\* The event that the chain of e gives, from the chain itself.
ChainEvent(e) ==
    [exception |->
        [i \in 1..Depth(e) |->
            [ty |-> parse_type_from_debug(heap[Pos(e, Depth(e) - i)].dbg),
             value |-> Some(heap[Pos(e, Depth(e) - i)].msg)] @@ ExceptionRest],
     level |-> "Error"] @@ EventRest

\* C5: when the top of the stack holds a client, Hub::capture_error hands
\* exactly one event, the one event_from_error built for the error, to
\* capture_event exactly once, and returns the identifier that call gave.
C5_ForwardOnce ==
    \A t \in Threads :
        /\ (pc[t] \in {"build", "walk", "built"} => EntriesOf(t) = {})
        /\ (pc[t] \in {"release", "done"} /\ seen[t] # NoClient) =>
              /\ Cardinality(EntriesOf(t)) = 1
              /\ \A i \in EntriesOf(t) :
                    /\ event[t] # None
                    /\ log[i].event = event[t][1]
                    /\ log[i].event = ChainEvent(err[t])
                    /\ ret[t] = log[i].id

C5_Witness ==
    \E t \in Threads :
        /\ pc[t] = "done"
        /\ seen[t] # NoClient
        /\ ret[t] = 1
        /\ Len(event[t][1].exception) = 3
        /\ Len(log) = 2

\* The index of the first delimiter of d, or Len(d) + 1 when it has none.
FirstDelim(d) ==
    IF \E i \in 1..Len(d) : d[i] \in Delims
    THEN CHOOSE i \in 1..Len(d) :
            d[i] \in Delims /\ \A j \in 1..(i - 1) : d[j] \notin Delims
    ELSE Len(d) + 1

\* The part of d before its first delimiter.
LeadingToken(d) == SubSeq(d, 1, FirstDelim(d) - 1)

\* r is tok without its leading and trailing whitespace.
IsTrimOf(r, tok) ==
    \E i \in 1..(Len(tok) + 1), j \in 0..Len(tok) :
        /\ r = SubSeq(tok, i, j)
        /\ \A k \in 1..(i - 1) : IsWhitespace(tok[k])
        /\ \A k \in (j + 1)..Len(tok) : IsWhitespace(tok[k])
        /\ (r # <<>> => ~IsWhitespace(r[1]) /\ ~IsWhitespace(r[Len(r)]))

\* C6: parse_type_from_debug(d) is the part of d before its first
\* delimiter (space, '(', '{', CR, LF) with the whitespace around that
\* token trimmed; without a delimiter it is the whole text trimmed.
\* "MyStruct", "MyStruct(5)" and "MyStruct { field: 1 }" give "MyStruct".
C6_LeadingTokenTrimmed ==
    parsed =>
        /\ IsTrimOf(tyName, LeadingToken(dbgText))
        /\ ((\A i \in 1..Len(dbgText) : dbgText[i] \notin Delims) =>
                IsTrimOf(tyName, dbgText))
        /\ (dbgText \in ExampleTexts /\ SubSeq(dbgText, 1, 8) = MyStruct =>
                tyName = MyStruct)

C6_Witness ==
    /\ parsed
    /\ dbgText =
         MyStruct \o <<32, 123, 32, 102, 105, 101, 108, 100, 58, 32, 49, 32, 125>>
    /\ tyName = MyStruct

\* d is a newline followed by a type name.
NewlineThenName(d) ==
    /\ Len(d) >= 2
    /\ d[1] = 10
    /\ d[2] \notin Delims
    /\ ~IsWhitespace(d[2])

\* C7 as claimed: for a debug text that is a newline followed by a type
\* name, parse_type_from_debug gives that type name, not an empty token.
C7_Original ==
    (parsed /\ NewlineThenName(dbgText)) =>
        /\ IsTrimOf(tyName, LeadingToken(Tail(dbgText)))
        /\ tyName # <<>>

\* C7 as amended: a debug text that begins with a newline gives the empty
\* type name, the newline being a delimiter; whitespace that is no
\* delimiter (a tab) before a type name is trimmed off the selected token,
\* which then is the type name.
C7_NewlineGivesEmpty ==
    parsed =>
        /\ (dbgText # <<>> /\ dbgText[1] = 10 => tyName = <<>>)
        /\ (Len(dbgText) >= 2 /\ dbgText[1] = 9 /\ dbgText[2] \notin Delims
                /\ ~IsWhitespace(dbgText[2]) =>
                /\ IsTrimOf(tyName, LeadingToken(Tail(dbgText)))
                /\ tyName # <<>>
                /\ tyName[1] = dbgText[2])

C7_Witness ==
    /\ parsed
    /\ dbgText = <<10>> \o MyStruct \o <<40, 53, 41>>
    /\ tyName = <<>>

\* C8 as claimed: every exception of every event built by event_from_error
\* has a non-empty type, whatever the Debug text of the error.
C8_Original ==
    \A t \in Threads :
        Built(t) =>
            \A i \in 1..Len(event[t][1].exception) :
                event[t][1].exception[i].ty # <<>>

\* The Debug text has a character that is not whitespace before its first
\* delimiter.
HasLeadingName(d) ==
    \E j \in 1..(FirstDelim(d) - 1) : ~IsWhitespace(d[j])

\* C8 as amended: an exception has a non-empty type exactly when the Debug
\* text of its error has a character that is not whitespace before its
\* first delimiter; a Debug text that is empty or starts with a delimiter
\* gives the empty type.
C8_TypeEmptyOrNot ==
    \A t \in Threads :
        Built(t) =>
            \A i \in 1..Len(event[t][1].exception) :
                LET d == heap[walked[t][Len(walked[t]) + 1 - i]].dbg
                    ty == event[t][1].exception[i].ty
                IN /\ (ty # <<>>) <=> HasLeadingName(d)
                   /\ (d = <<>> \/ d[1] \in Delims) => ty = <<>>

C8_Witness ==
    /\ Built(1)
    /\ Len(event[1][1].exception) = 3
    /\ event[1][1].exception[1].ty = <<>>
    /\ heap[walked[1][3]].dbg = <<>>
    /\ event[1][1].exception[2].ty = <<>>
    /\ heap[walked[1][2]].dbg # <<>>
    /\ event[1][1].exception[3].ty = OuterError

C10_WalkEnds ==
    /\ [](\A t \in Threads :
            Built(t) =>
                /\ Acyclic(err[t])
                /\ walked[t] = ChainOf(err[t])
                /\ Len(exceptions[t]) = Depth(err[t])
                /\ source[t] = NoErr)
    /\ (pc[1] = "build" /\ Acyclic(err[1])) ~> Built(1)
    /\ [](\A t \in Threads :
            (pc[t] # "idle" /\ ~Acyclic(err[t])) =>
                /\ event[t] = None
                /\ pc[t] # "built")

C10_Witness ==
    /\ Built(1)
    /\ Depth(err[1]) = 3
    /\ Len(exceptions[1]) = 3
    /\ walked[1] = <<err[1], heap[err[1]].src, heap[heap[err[1]].src].src>>

====
